---- MODULE Spec2Model ----
(***************************************************************************)
(* The Activity-on-Edge critical-path engine of bst_mcp_server             *)
(* (src/src/bst_mcp_server/aoe_graph.py): class AOEGraph, its duration     *)
(* resolver, graph builder, critical path solver and task annotator.       *)
(*                                                                         *)
(* Conventions of the translation                                          *)
(*  - Python's None is the empty tuple, a present value x is <<x>>.        *)
(*  - A string that the code assembles as f"{key}_start" is the pair       *)
(*    <<key, "_start">>, a bare key is <<key, "">>.  Task and project keys *)
(*    are issue-tracker keys: none of them ends in "_start" or "_end".     *)
(*  - Dates are day numbers counted from Monday 2025-03-31 (day 0).        *)
(*  - Durations, ve and vl are Python numbers: an int, or the float        *)
(*    (IEEE 754 binary64) that estimate_seconds / 3600 gives.  They are    *)
(*    kept bit for bit, see the section Numbers.                           *)
(*  - dicts that keep insertion order (nodes) and lists (adj[u],           *)
(*    critical_path) are sequences; the defaultdicts adj and in_degree are *)
(*    total functions with the default value where nothing was stored.     *)
(***************************************************************************)
EXTENDS Integers, Sequences, FiniteSets, TLC

VARIABLES
    tasks,           \* self.tasks: the caller's task records (keytask is written in place)
    nodes,           \* self.nodes: node ids in insertion order
    adj,             \* self.adj: node id -> sequence of <<target, duration>>
    in_degree,       \* self.in_degree: node id -> count
    ve,              \* self.ve: dict node id -> earliest time
    vl,              \* self.vl: dict node id -> latest time
    critical_path,   \* self.critical_path: sequence of <<u, v, w>>
    result,          \* value returned by the latest calculate_critical_path
    critical_tasks,  \* list returned by get_critical_tasks under self.key (indices into tasks)
    pc,              \* position of the caller in its sequence of calls
    calls,           \* history of the add_edge and add_node calls made through the API
    returned,        \* value returned by find_critical_path, None before it returns
    peer,            \* a second AOEGraph instance with its caller, None when there is one
    all_paths,       \* list returned by the latest find_all_critical_paths
    duration_hours,  \* value returned by the latest calculate_task_duration
    frame            \* local variables of the method that runs step by step, None outside

vars == <<tasks, nodes, adj, in_degree, ve, vl, critical_path, result,
          critical_tasks, pc, calls, returned, peer, all_paths, duration_hours, frame>>

-----------------------------------------------------------------------------
(* Bounds and universes *)

\* greatest estimate among the timing profiles drawn for a task, in steps of five
\* minutes; the least one is a quarter of an hour
MaxEstimateSteps == 4

\* number of add_edge calls in a run of the API specification
MaxCalls == 3

None == <<>>
Some(x) == <<x>>

ProjectKey == "WORK"
PeerKey == "PLAN"        \* the project of a second computation
Keys == {"T1", "T2", "T3", "T4"}
NoneKey == "<None>"      \* a record without "key": task.get("key") is None

Suffixes == {"_start", "_end"}
NodeIds == (Keys \cup {ProjectKey, PeerKey, "None"}) \X Suffixes

Range(s) == {s[i] : i \in 1..Len(s)}
MaxOf(S) == CHOOSE x \in S : \A y \in S : y <= x
MinOf(S) == CHOOSE x \in S : \A y \in S : x <= y

-----------------------------------------------------------------------------
(* Strings *)

\* f"{x}": None formats as the text None
fstr(key) == IF key = NoneKey THEN "None" ELSE key
start_id(key) == <<fstr(key), "_start">>
end_id(key) == <<fstr(key), "_end">>

remove_suffix(s, suffix) == IF s[2] = suffix THEN <<s[1], "">> ELSE s

-----------------------------------------------------------------------------
(* Numbers                                                                 *)
(*                                                                         *)
(* Every number of a run (a duration in hours, a ve, a vl) is a multiple   *)
(* of 2^-54 of magnitude below 2^6: the ints are, and so is the float of a *)
(* quotient that is at least 1/4.  The number x is the pair <<hi, lo>>     *)
(* with x * 2^54 = hi * 2^30 + lo and 0 <= lo < 2^30, hi carrying the      *)
(* sign.  A float keeps 53 significant bits: an exact result of more bits  *)
(* is rounded to the nearest float, a tie to the even one.                 *)

Limb == 2^30

\* the int n
Num(n) == <<n * 2^24, 0>>
Zero == Num(0)

Less(x, y) == x[1] < y[1] \/ (x[1] = y[1] /\ x[2] < y[2])
LessEq(x, y) == x = y \/ Less(x, y)

Neg(x) == IF x[2] = 0 THEN <<-x[1], 0>> ELSE <<-x[1] - 1, Limb - x[2]>>

\* the sum in exact arithmetic
ExactSum(x, y) ==
    LET lo == x[2] + y[2]
    IN  IF lo >= Limb THEN <<x[1] + y[1] + 1, lo - Limb>> ELSE <<x[1] + y[1], lo>>

\* the number of low bits that a magnitude of this hi has beyond 53
ExcessBits(hi) == CHOOSE s \in 0..7 : hi < 2^(23 + s) /\ (s = 0 \/ hi >= 2^(22 + s))

Carry(hi, lo) == IF lo = Limb THEN <<hi + 1, 0>> ELSE <<hi, lo>>

\* whether the low bits below quantum, with the fraction rest / den after them, round up
RoundsUp(low, quantum, odd, rest, den) ==
    \/ 2 * (low * den + rest) > quantum * den
    \/ 2 * (low * den + rest) = quantum * den /\ odd

RoundTo(x, quantum, rest, den) ==
    Carry(x[1], (x[2] - (x[2] % quantum))
                + (IF RoundsUp(x[2] % quantum, quantum, (x[2] \div quantum) % 2 = 1, rest, den)
                   THEN quantum ELSE 0))

\* x >= 0 with the fraction rest / den (below 1) of a unit after it, rounded to 53 bits
RoundMagnitude(x, rest, den) == RoundTo(x, 2^ExcessBits(x[1]), rest, den)

Round(x) == IF x[1] < 0 THEN Neg(RoundMagnitude(Neg(x), 0, 1)) ELSE RoundMagnitude(x, 0, 1)

\* x + y and x - y of Python
Plus(x, y) == Round(ExactSum(x, y))
Minus(x, y) == Round(ExactSum(x, Neg(y)))

\* max(a, b) and min(a, b) of Python
max(a, b) == IF Less(a, b) THEN b ELSE a
min(a, b) == IF Less(b, a) THEN b ELSE a

\* max(values)
max_value(S) == CHOOSE x \in S : \A y \in S : LessEq(y, x)

\* n / den of Python for ints n > 0 and 0 < den < 2^13 with 1/4 <= n / den: the
\* float nearest to the quotient.  The long division gives 54 binary digits after
\* the point, 18 at a time, and the remainder decides the rounding.
true_division(n, den) ==
    LET r0 == n % den
        c1 == (r0 * 2^18) \div den
        r1 == (r0 * 2^18) % den
        c2 == (r1 * 2^18) \div den
        r2 == (r1 * 2^18) % den
        c3 == (r2 * 2^18) \div den
        r3 == (r2 * 2^18) % den
    IN  RoundMagnitude(<<(n \div den) * 2^24 + c1 * 2^6 + c2 \div 2^12,
                         (c2 % 2^12) * 2^18 + c3>>, r3, den)

-----------------------------------------------------------------------------
(* Duration resolver *)

HoursPerDay == 8
SecondsPerHour == 3600

\* the days of the window that HolidayUtil lists: 2025-04-04, -05, -06
Holidays == {4, 5, 6}
\* a calendar without public holidays
is_holiday_never(day) == FALSE

is_holiday(day) == day \in Holidays
weekday(day) == day % 7

Absent == [present |-> FALSE, wellformed |-> FALSE, day |-> 0, tod |-> FALSE]
Malformed == [present |-> TRUE, wellformed |-> FALSE, day |-> 0, tod |-> FALSE]
DateStr(d, t) == [present |-> TRUE, wellformed |-> TRUE, day |-> d, tod |-> t]

\* the date part only; a string that does not parse gives None
parse_date(date_str) ==
    IF date_str.present
    THEN IF date_str.wellformed THEN Some(date_str.day) ELSE None
    ELSE None

\* a start that takes the earlier of the two dates
task_start_earliest(task) ==
    LET plan_start_dt == parse_date(task.plan_start)
        actual_start_dt == parse_date(task.actual_start)
    IN  IF plan_start_dt # None /\ actual_start_dt # None
        THEN Some(IF actual_start_dt[1] < plan_start_dt[1]
                  THEN actual_start_dt[1] ELSE plan_start_dt[1])
        ELSE IF plan_start_dt # None THEN plan_start_dt
        ELSE IF actual_start_dt # None THEN actual_start_dt
        ELSE None

task_start_of(task) ==
    LET plan_start_dt == parse_date(task.plan_start)
        actual_start_dt == parse_date(task.actual_start)
    IN  IF plan_start_dt # None /\ actual_start_dt # None
        THEN Some(IF actual_start_dt[1] > plan_start_dt[1]
                  THEN actual_start_dt[1] ELSE plan_start_dt[1])
        ELSE IF plan_start_dt # None THEN plan_start_dt
        ELSE IF actual_start_dt # None THEN actual_start_dt
        ELSE None

task_end_of(task) ==
    LET task_start == task_start_of(task)
        plan_end_dt == parse_date(task.plan_end)
        actual_end_dt == parse_date(task.actual_end)
    IN  IF task_start # None
        THEN IF plan_end_dt # None /\ actual_end_dt # None
             THEN IF actual_end_dt[1] >= task_start[1] THEN actual_end_dt ELSE plan_end_dt
             ELSE IF plan_end_dt # None THEN plan_end_dt
             ELSE IF actual_end_dt # None THEN actual_end_dt
             ELSE None
        ELSE None

RECURSIVE count_workdays(_, _)
count_workdays(current, task_end) ==
    IF current > task_end THEN 0
    ELSE (IF weekday(current) < 5 /\ ~is_holiday(current) THEN 1 ELSE 0)
         + count_workdays(current + 1, task_end)

\* a resolver that falls back to one working day instead of None
calculate_task_duration_defaults(task) ==
    IF task_start_of(task) # None /\ task_end_of(task) # None
    THEN Some(Num(count_workdays(task_start_of(task)[1], task_end_of(task)[1])
                  * HoursPerDay))
    ELSE Some(Num(HoursPerDay))

\* a resolver that gives no duration to a record already flagged keytask
calculate_task_duration_once(task) ==
    IF task.keytask THEN None
    ELSE IF task_start_of(task) # None /\ task_end_of(task) # None
    THEN Some(Num(count_workdays(task_start_of(task)[1], task_end_of(task)[1])
                  * HoursPerDay))
    ELSE IF task.aggregatetimeoriginalestimate # None
            /\ task.aggregatetimeoriginalestimate[1] > 0
    THEN Some(true_division(task.aggregatetimeoriginalestimate[1], SecondsPerHour))
    ELSE None

calculate_task_duration(task) ==
    LET task_start == task_start_of(task)
        task_end == task_end_of(task)
        estimate_seconds == task.aggregatetimeoriginalestimate
    IN  IF task_start # None /\ task_end # None
        THEN Some(Num(count_workdays(task_start[1], task_end[1]) * HoursPerDay))
        ELSE IF estimate_seconds # None /\ estimate_seconds[1] > 0
        THEN Some(true_division(estimate_seconds[1], SecondsPerHour))
        ELSE None

-----------------------------------------------------------------------------
(* Graph primitives; a graph value g is [nodes, adj, in_degree] *)

EmptyGraph ==
    [nodes |-> <<>>,
     adj |-> [n \in NodeIds |-> <<>>],
     in_degree |-> [n \in NodeIds |-> 0]]

add_node(g, node_id) ==
    [g EXCEPT !.nodes = IF node_id \in Range(@) THEN @ ELSE Append(@, node_id)]

\* add_edge without the scan for an existing edge
add_edge_always_appends(g, start_node, end_node, duration) ==
    [g EXCEPT !.adj[start_node] = Append(@, <<end_node, duration>>),
              !.in_degree[end_node] = @ + 1]

\* add_edge that forgets the in-degree of the target
add_edge_keeps_in_degree(g, start_node, end_node, duration) ==
    LET out == g.adj[start_node]
        hit == {i \in 1..Len(out) : out[i][1] = end_node}
    IN  IF hit # {}
        THEN [g EXCEPT !.adj[start_node][MinOf(hit)] = <<end_node, duration>>]
        ELSE [g EXCEPT !.adj[start_node] = Append(@, <<end_node, duration>>)]

\* add_edge that leaves an existing edge with the duration it has
add_edge_keeps_duration(g, start_node, end_node, duration) ==
    IF \E i \in 1..Len(g.adj[start_node]) : g.adj[start_node][i][1] = end_node
    THEN g
    ELSE [g EXCEPT !.adj[start_node] = Append(@, <<end_node, duration>>),
                   !.in_degree[end_node] = @ + 1]

add_edge(g, start_node, end_node, duration) ==
    LET out == g.adj[start_node]
        hit == {i \in 1..Len(out) : out[i][1] = end_node}
    IN  IF hit # {}
        THEN [g EXCEPT !.adj[start_node][MinOf(hit)] = <<end_node, duration>>]
        ELSE [g EXCEPT !.adj[start_node] = Append(@, <<end_node, duration>>),
                       !.in_degree[end_node] = @ + 1]

get_task_by_key(ts, task_key) ==
    LET hit == {i \in 1..Len(ts) : ts[i].key # NoneKey /\ <<ts[i].key, "">> = task_key}
    IN  IF hit # {} THEN Some(MinOf(hit)) ELSE None

-----------------------------------------------------------------------------
(* Graph builder *)

RECURSIVE add_task_nodes(_, _, _)
add_task_nodes(g, ts, i) ==
    IF i > Len(ts) THEN g
    ELSE add_task_nodes(add_node(add_node(g, start_id(ts[i].key)), end_id(ts[i].key)),
                        ts, i + 1)

add_nodes(g, ts, key) ==
    add_node(add_task_nodes(add_node(g, start_id(key)), ts, 1), end_id(key))

\* predecessor edges that leave the start node of the predecessor
RECURSIVE predecessor_edges_from_start(_, _, _, _)
predecessor_edges_from_start(g, predecessors, j, start_node_id) ==
    IF j > Len(predecessors) THEN g
    ELSE predecessor_edges_from_start(
             add_edge(g, start_id(predecessors[j]), start_node_id, Zero),
             predecessors, j + 1, start_node_id)

RECURSIVE predecessor_edges(_, _, _, _)
predecessor_edges(g, predecessors, j, start_node_id) ==
    IF j > Len(predecessors) THEN g
    ELSE predecessor_edges(add_edge(g, end_id(predecessors[j]), start_node_id, Zero),
                           predecessors, j + 1, start_node_id)

\* first loop of add_edges: the duration edge and the predecessor edges of each task
RECURSIVE duration_loop(_, _, _, _)
duration_loop(g, ts, i, key) ==
    IF i > Len(ts) THEN g
    ELSE LET task == ts[i]
             task_duration == calculate_task_duration(task)
             start_node_id == start_id(task.key)
             g1 == add_edge(g, start_node_id, end_id(task.key), task_duration[1])
             g2 == IF task.predecessors # <<>>
                   THEN predecessor_edges(g1, task.predecessors, 1, start_node_id)
                   ELSE IF task.isSubtask = Some(FALSE)
                        THEN add_edge(g1, start_id(key), start_node_id, Zero)
                        ELSE g1
         IN  IF task.key = NoneKey THEN duration_loop(g, ts, i + 1, key)
             ELSE IF task_duration = None THEN duration_loop(g, ts, i + 1, key)
             ELSE duration_loop(g2, ts, i + 1, key)

referenced_tasks(ts) == UNION {Range(ts[i].predecessors) : i \in 1..Len(ts)}

\* the loop over a parent's subtask keys that adds the entry edges and sums the
\* subtask durations; 0 + None raises TypeError
RECURSIVE subtask_entry_edges(_, _, _, _, _)
subtask_entry_edges(g, ts, subtask_keys, j, start_node_id) ==
    IF j > Len(subtask_keys) THEN [g |-> g, raised |-> FALSE]
    ELSE LET subtask == get_task_by_key(ts, <<subtask_keys[j], "">>)
         IN  IF subtask = None
             THEN subtask_entry_edges(g, ts, subtask_keys, j + 1, start_node_id)
             ELSE LET st == ts[subtask[1]]
                      g1 == IF Len(st.predecessors) = 0
                            THEN add_edge(g, start_node_id, start_id(subtask_keys[j]), Zero)
                            ELSE g
                  IN  IF calculate_task_duration(st) = None
                      THEN [g |-> g1, raised |-> TRUE]
                      ELSE subtask_entry_edges(g1, ts, subtask_keys, j + 1, start_node_id)

RECURSIVE subtask_exit_edges(_, _, _, _, _)
subtask_exit_edges(g, subtask_keys, j, end_node_id, referenced) ==
    IF j > Len(subtask_keys) THEN g
    ELSE subtask_exit_edges(
             IF subtask_keys[j] \notin referenced
             THEN add_edge(g, end_id(subtask_keys[j]), end_node_id, Zero)
             ELSE g,
             subtask_keys, j + 1, end_node_id, referenced)

\* second loop of add_edges: the subgraph of every task that has subtasks
RECURSIVE subtask_loop(_, _, _, _)
subtask_loop(g, ts, i, referenced) ==
    IF i > Len(ts) THEN [g |-> g, raised |-> FALSE]
    ELSE LET task == ts[i]
             start_node_id == start_id(task.key)
             end_node_id == end_id(task.key)
             entered == subtask_entry_edges(g, ts, task.subtasks, 1, start_node_id)
             exited == subtask_exit_edges(entered.g, task.subtasks, 1, end_node_id,
                                          referenced)
         IN  IF task.key = NoneKey \/ task.subtasks = <<>>
             THEN subtask_loop(g, ts, i + 1, referenced)
             ELSE IF entered.raised THEN entered
             ELSE subtask_loop(add_edge(exited, start_node_id, end_node_id, Zero),
                               ts, i + 1, referenced)

\* third loop of add_edges: the end tasks are wired to the project end node
RECURSIVE end_task_loop(_, _, _, _, _)
end_task_loop(g, ts, i, referenced, key) ==
    IF i > Len(ts) THEN g
    ELSE end_task_loop(
             IF ts[i].key \notin referenced /\ ts[i].isSubtask = Some(FALSE)
             THEN add_edge(g, end_id(ts[i].key), end_id(key), Zero)
             ELSE g,
             ts, i + 1, referenced, key)

add_edges(g, ts, key) ==
    LET referenced == referenced_tasks(ts)
        wired == subtask_loop(duration_loop(g, ts, 1, key), ts, 1, referenced)
    IN  IF wired.raised THEN wired
        ELSE [g |-> end_task_loop(wired.g, ts, 1, referenced, key), raised |-> FALSE]

build_graph_from_tasks(g, ts, key) == add_edges(add_nodes(g, ts, key), ts, key)

-----------------------------------------------------------------------------
(* Critical path solver *)

\* self.ve[v] = max(self.ve[v], self.ve[u] + w)
earliest(ve_v, ve_u, w) == max(ve_v, Plus(ve_u, w))

\* self.vl[u] = min(self.vl[u], self.vl[v] - w)
latest(vl_u, vl_v, w) == min(vl_u, Minus(vl_v, w))

\* the loop over the outgoing edges of u in topological_sort; st is
\* [ve, in_degree_copy, queue, raised]; self.ve[v] of a v that is no node raises KeyError
RECURSIVE relax_edges(_, _, _, _)
relax_edges(out, i, u, st) ==
    IF i > Len(out) \/ st.raised THEN st
    ELSE LET v == out[i][1]
             w == out[i][2]
         IN  IF v \notin DOMAIN st.ve THEN [st EXCEPT !.raised = TRUE]
             ELSE LET d == st.in_degree_copy[v] - 1
                  IN  relax_edges(out, i + 1, u,
                          [ve |-> [st.ve EXCEPT ![v] = earliest(@, st.ve[u], w)],
                           in_degree_copy |-> [st.in_degree_copy EXCEPT ![v] = d],
                           queue |-> IF d = 0 THEN Append(st.queue, v) ELSE st.queue,
                           raised |-> FALSE])

RECURSIVE kahn_loop(_, _, _)
kahn_loop(g, st, topo_order) ==
    IF st.queue = <<>> \/ st.raised
    THEN [topo_order |-> topo_order, ve |-> st.ve, raised |-> st.raised]
    ELSE LET u == Head(st.queue)
         IN  kahn_loop(g,
                       relax_edges(g.adj[u], 1, u, [st EXCEPT !.queue = Tail(@)]),
                       Append(topo_order, u))

topological_sort(g, ve0) ==
    kahn_loop(g,
              [ve |-> [n \in DOMAIN ve0 \cup Range(g.nodes) |->
                          IF n \in Range(g.nodes) THEN Zero ELSE ve0[n]],
               in_degree_copy |-> g.in_degree,
               queue |-> SelectSeq(g.nodes, LAMBDA n : g.in_degree[n] = 0),
               raised |-> FALSE],
              <<>>)

\* vl initialised to 0 instead of the project duration
initial_vl_zero(g, vl0, max_time) ==
    [n \in DOMAIN vl0 \cup Range(g.nodes) |-> IF n \in Range(g.nodes) THEN Zero ELSE vl0[n]]

\* vl of every node before the backward pass
initial_vl(g, vl0, max_time) ==
    [n \in DOMAIN vl0 \cup Range(g.nodes) |->
        IF n \in Range(g.nodes) THEN max_time ELSE vl0[n]]

RECURSIVE backward_edges(_, _, _, _)
backward_edges(out, i, u, lv) ==
    IF i > Len(out) THEN lv
    ELSE backward_edges(out, i + 1, u,
                        [lv EXCEPT ![u] = latest(@, lv[out[i][1]], out[i][2])])

\* for u in reversed(topo_order)
RECURSIVE backward_pass(_, _, _, _)
backward_pass(g, topo_order, k, lv) ==
    IF k < 1 THEN lv
    ELSE backward_pass(g, topo_order, k - 1,
                       backward_edges(g.adj[topo_order[k]], 1, topo_order[k], lv))

\* an activity is critical when its earliest start equals its latest start
is_critical(e, l) == e = l

RECURSIVE critical_of_node(_, _, _, _, _)
critical_of_node(out, i, u, ev, lv) ==
    IF i > Len(out) THEN <<>>
    ELSE (IF is_critical(ev[u], Minus(lv[out[i][1]], out[i][2]))
          THEN <<<<u, out[i][1], out[i][2]>>>> ELSE <<>>)
         \o critical_of_node(out, i + 1, u, ev, lv)

RECURSIVE critical_edges_of(_, _, _, _)
critical_edges_of(g, k, ev, lv) ==
    IF k > Len(g.nodes) THEN <<>>
    ELSE critical_of_node(g.adj[g.nodes[k]], 1, g.nodes[k], ev, lv)
         \o critical_edges_of(g, k + 1, ev, lv)

\* s is [ve, vl, critical_path]; the value is the new s with the returned value
\* (None for a cycle) and whether an exception left the method
calculate_critical_path(g, s) ==
    LET sorted == topological_sort(g, s.ve)
        max_time == max_value({sorted.ve[n] : n \in DOMAIN sorted.ve})
        lv == backward_pass(g, sorted.topo_order, Len(sorted.topo_order),
                            initial_vl(g, s.vl, max_time))
        critical_edges == critical_edges_of(g, 1, sorted.ve, lv)
    IN  IF sorted.raised
        THEN [ve |-> sorted.ve, vl |-> s.vl, critical_path |-> s.critical_path,
              ret |-> None, raised |-> TRUE]
        ELSE IF Len(sorted.topo_order) # Len(g.nodes)
        THEN [ve |-> sorted.ve, vl |-> s.vl, critical_path |-> s.critical_path,
              ret |-> None, raised |-> FALSE]
        ELSE IF DOMAIN sorted.ve = {}
        THEN [ve |-> sorted.ve, vl |-> s.vl, critical_path |-> s.critical_path,
              ret |-> None, raised |-> TRUE]
        ELSE [ve |-> sorted.ve, vl |-> lv, critical_path |-> critical_edges,
              ret |-> Some([critical_edges |-> critical_edges, max_time |-> max_time]),
              raised |-> FALSE]

-----------------------------------------------------------------------------
(* Critical task annotator *)

\* zero-duration edges attributed as well
carries_work_or_none(w) == LessEq(Zero, w)

\* only an edge of positive duration is attributed to a task
carries_work(w) == Less(Zero, w)

\* an annotator that flags the task at the source of every critical edge and lists
\* only those whose edge has a positive duration
RECURSIVE annotate_flags_every_source(_, _, _)
annotate_flags_every_source(cp, k, a) ==
    IF k > Len(cp) THEN a
    ELSE LET task == get_task_by_key(a.tasks, remove_suffix(cp[k][1], "_start"))
         IN  IF task = None THEN annotate_flags_every_source(cp, k + 1, a)
             ELSE annotate_flags_every_source(cp, k + 1,
                      [tasks |-> [a.tasks EXCEPT ![task[1]].keytask = TRUE],
                       listed |-> IF carries_work(cp[k][3])
                                  THEN Append(a.listed, task[1]) ELSE a.listed])

\* the loop of get_critical_tasks over self.critical_path; a is [tasks, listed]
RECURSIVE annotate(_, _, _)
annotate(cp, k, a) ==
    IF k > Len(cp) THEN a
    ELSE LET task == get_task_by_key(a.tasks, remove_suffix(cp[k][1], "_start"))
         IN  IF carries_work(cp[k][3]) /\ task # None
             THEN annotate(cp, k + 1,
                           [tasks |-> [a.tasks EXCEPT ![task[1]].keytask = TRUE],
                            listed |-> Append(a.listed, task[1])])
             ELSE annotate(cp, k + 1, a)

get_critical_tasks(g, s, ts) ==
    LET c == IF s.critical_path = <<>>
             THEN calculate_critical_path(g, s)
             ELSE [ve |-> s.ve, vl |-> s.vl, critical_path |-> s.critical_path,
                   ret |-> s.ret, raised |-> FALSE]
        a == annotate(c.critical_path, 1, [tasks |-> ts, listed |-> <<>>])
    IN  IF c.raised
        THEN [c EXCEPT !.ret = s.ret] @@ [tasks |-> ts, listed |-> <<>>]
        ELSE c @@ a

-----------------------------------------------------------------------------
(* Inputs: the task lists that the task-listing collaborator supplies *)

NoTiming ==
    [plan_start |-> Absent, actual_start |-> Absent, plan_end |-> Absent,
     actual_end |-> Absent, aggregatetimeoriginalestimate |-> None]

\* only an estimate, in seconds
Estimated(seconds) == [NoTiming EXCEPT !.aggregatetimeoriginalestimate = Some(seconds)]

\* the estimates from a quarter of an hour to k times five minutes
Estimates(k) == {300 * j : j \in 3..k}

\* planned from day a to day b
Planned(a, b) == [NoTiming EXCEPT !.plan_start = DateStr(a, TRUE), !.plan_end = DateStr(b, TRUE)]

\* Saturday 2025-04-05 to Sunday 2025-04-06: no working day, 0 hours
Weekend == Planned(5, 6)

ResolvedTimings == {Estimated(e) : e \in Estimates(MaxEstimateSteps)} \cup {Weekend}
Timings == ResolvedTimings \cup {NoTiming}

Task(key, isSubtask, subtasks, predecessors, timing) ==
    [key |-> key, isSubtask |-> Some(isSubtask), subtasks |-> subtasks,
     predecessors |-> predecessors, keytask |-> FALSE] @@ timing

KeyOrder == <<"T1", "T2", "T3", "T4">>
KeyList(S) == SelectSeq(KeyOrder, LAMBDA k : k \in S)

\* three top-level tasks with predecessor lists among them (T3 may name itself)
Networks ==
    {<<Task("T1", FALSE, <<>>, KeyList(p1), t1),
       Task("T2", FALSE, <<>>, KeyList(p2), t2),
       Task("T3", FALSE, <<>>, KeyList(p3), t3)>> :
        p1 \in SUBSET {"T2", "T3"}, p2 \in SUBSET {"T1", "T3"},
        p3 \in SUBSET {"T1", "T2", "T3"},
        t1 \in Timings, t2 \in Timings, t3 \in Timings}

\* a parent T1 over T2 and T3 (and T4, which is not in the list)
Hierarchies ==
    {<<Task("T1", FALSE, KeyList(s1), <<>>, t1),
       Task("T2", b2, KeyList(s2), KeyList(p2), t2),
       Task("T3", b3, <<>>, KeyList(p3), t3)>> :
        s1 \in (SUBSET {"T2", "T3", "T4"}) \ {{}},
        b2 \in BOOLEAN, s2 \in {{}, {"T3"}}, p2 \in {{}, {"T1"}, {"T3"}},
        b3 \in BOOLEAN, p3 \in {{}, {"T1"}, {"T2"}},
        t1 \in {NoTiming, Estimated(900)}, t2 \in Timings, t3 \in Timings}

\* two independent chains T1 (-> T2) and T3 (-> T4) of top-level tasks, every one
\* with a duration
ChainTimings == ResolvedTimings \cup {Planned(0, 0)}
Chain(first, second) ==
    {<<Task(first, FALSE, <<>>, <<>>, t)>> : t \in ChainTimings}
    \cup {<<Task(first, FALSE, <<>>, <<>>, t), Task(second, FALSE, <<>>, <<first>>, u)>> :
              t \in ChainTimings, u \in ChainTimings}
Chains == {a \o b : a \in Chain("T1", "T2"), b \in Chain("T3", "T4")}

\* T1 -> T3 beside T2, both before T4, every task with an estimate
Diamonds ==
    {<<Task("T1", FALSE, <<>>, <<>>, Estimated(e1)),
       Task("T2", FALSE, <<>>, <<>>, Estimated(e2)),
       Task("T3", FALSE, <<>>, <<"T1">>, Estimated(e3)),
       Task("T4", FALSE, <<>>, <<"T2", "T3">>, Estimated(e4))>> :
        e1 \in Estimates(MaxEstimateSteps + 3), e2 \in Estimates(MaxEstimateSteps + 3),
        e3 \in Estimates(MaxEstimateSteps + 3), e4 \in Estimates(MaxEstimateSteps + 3)}

-----------------------------------------------------------------------------
(* State machine *)

graph == [nodes |-> nodes, adj |-> adj, in_degree |-> in_degree]
solver == [ve |-> ve, vl |-> vl, critical_path |-> critical_path, ret |-> result]

\* AOEGraph.__init__
NewGraph ==
    /\ nodes = <<>>
    /\ adj = [n \in NodeIds |-> <<>>]
    /\ in_degree = [n \in NodeIds |-> 0]
    /\ ve = <<>>
    /\ vl = <<>>
    /\ critical_path = <<>>
    /\ result = None
    /\ critical_tasks = <<>>
    /\ calls = <<>>

InitTasks(inputs) ==
    /\ tasks \in inputs
    /\ NewGraph
    /\ pc = "input"
    /\ returned = None
    /\ peer = None
    /\ all_paths = <<>>
    /\ duration_hours = None
    /\ frame = None

\* what a build that ended as b leaves
BuiltTo(b) ==
    /\ nodes' = b.g.nodes
    /\ adj' = b.g.adj
    /\ in_degree' = b.g.in_degree
    /\ pc' = IF b.raised THEN "raised_in_build" ELSE "built"

\* graph.build_graph_from_tasks(tasks, key=project_key, name=project_name)
BuildGraphFromTasks ==
    /\ pc = "input"
    /\ BuiltTo(build_graph_from_tasks(graph, tasks, ProjectKey))
    /\ UNCHANGED <<tasks, ve, vl, critical_path, result, critical_tasks, calls, returned, peer, all_paths, duration_hours, frame>>

\* what a calculation that ended as c leaves
CalculatedAs(c) ==
    /\ ve' = c.ve
    /\ vl' = c.vl
    /\ critical_path' = c.critical_path
    /\ result' = c.ret
    /\ pc' = IF c.raised THEN "raised_in_calculate" ELSE "calculated"

\* graph.calculate_critical_path()
CalculateCriticalPath ==
    /\ pc = "built"
    /\ CalculatedAs(calculate_critical_path(graph, solver))
    /\ UNCHANGED <<tasks, nodes, adj, in_degree, critical_tasks, calls, returned, peer, all_paths, duration_hours, frame>>

\* what a get_critical_tasks that ended as c leaves
AnnotatedAs(c) ==
    /\ ve' = c.ve
    /\ vl' = c.vl
    /\ critical_path' = c.critical_path
    /\ result' = c.ret
    /\ tasks' = c.tasks
    /\ critical_tasks' = c.listed
    /\ pc' = IF c.raised THEN "raised_in_get_critical_tasks" ELSE "annotated"

\* graph.get_critical_tasks()
GetCriticalTasks ==
    /\ pc \in {"built", "calculated"}
    /\ AnnotatedAs(get_critical_tasks(graph, solver, tasks))
    /\ UNCHANGED <<nodes, adj, in_degree, calls, returned, peer, all_paths, duration_hours, frame>>

Next == BuildGraphFromTasks \/ CalculateCriticalPath \/ GetCriticalTasks

Init == InitTasks(Networks \cup Hierarchies)

Spec == Init /\ [][Next]_vars

\* the same calls on the two-chain task lists
InitChains == InitTasks(Chains)

SpecChains == InitChains /\ [][Next]_vars

\* the same calls on the diamond task lists
InitDiamonds == InitTasks(Diamonds)

SpecDiamonds == InitDiamonds /\ [][Next]_vars

-----------------------------------------------------------------------------
(* The graph API called directly: a sequence of add_edge calls on a new graph *)

ApiNodes == {<<"T1", "_start">>, <<"T1", "_end">>, <<"T2", "_start">>}
ApiDurations == {Num(5), Num(8)}

InitApi ==
    /\ tasks = <<>>
    /\ NewGraph
    /\ pc = "api"
    /\ returned = None
    /\ peer = None
    /\ all_paths = <<>>
    /\ duration_hours = None
    /\ frame = None

\* graph.add_edge(start_node, end_node, duration)
AddEdge(start_node, end_node, duration) ==
    /\ pc = "api"
    /\ Len(calls) < MaxCalls
    /\ LET g == add_edge(graph, start_node, end_node, duration)
       IN  /\ adj' = g.adj
           /\ in_degree' = g.in_degree
    /\ calls' = Append(calls, <<start_node, end_node, duration>>)
    /\ UNCHANGED <<tasks, nodes, ve, vl, critical_path, result, critical_tasks, pc, returned, peer, all_paths, duration_hours, frame>>

NextApi == \E u \in ApiNodes, v \in ApiNodes, w \in ApiDurations : AddEdge(u, v, w)

SpecApi == InitApi /\ [][NextApi]_vars

-----------------------------------------------------------------------------
(* Vocabulary of the properties *)

TaskIdx == 1..Len(tasks)
Keyed == {i \in TaskIdx : tasks[i].key # NoneKey}
Flagged == {i \in TaskIdx : tasks[i].keytask}

EdgeIdx(u, v) == {i \in 1..Len(adj[u]) : adj[u][i][1] = v}
HasEdge(u, v) == EdgeIdx(u, v) # {}
HasEdgeOf(u, v, w) == \E i \in EdgeIdx(u, v) : adj[u][i][2] = w

\* neither a start and an end date that parse nor a positive estimate
Unresolvable(t) ==
    /\ \/ parse_date(t.plan_start) = None /\ parse_date(t.actual_start) = None
       \/ parse_date(t.plan_end) = None /\ parse_date(t.actual_end) = None
    /\ \/ t.aggregatetimeoriginalestimate = None
       \/ t.aggregatetimeoriginalestimate[1] <= 0

Duration(i) == calculate_task_duration(tasks[i])[1]

\* the duration in seconds, in exact arithmetic
Seconds(i) ==
    IF task_start_of(tasks[i]) # None /\ task_end_of(tasks[i]) # None
    THEN count_workdays(task_start_of(tasks[i])[1], task_end_of(tasks[i])[1])
         * HoursPerDay * SecondsPerHour
    ELSE tasks[i].aggregatetimeoriginalestimate[1]

\* the tasks of S that some task of X lists as a predecessor
ListedBy(X, S) == {j \in S : \E i \in X : tasks[j].key \in Range(tasks[i].predecessors)}

RECURSIVE Closure(_, _)
Closure(X, S) ==
    LET Y == X \cup ListedBy(X, S) IN IF Y = X THEN X ELSE Closure(Y, S)

\* the predecessor lists of the tasks of S hold a cycle
CyclicWithin(S) == \E i \in S : i \in Closure(ListedBy({i}, S), S)

Calculated == pc \in {"calculated", "annotated"}
BuildEnded == pc \in {"built", "raised_in_build"}

-----------------------------------------------------------------------------
(* C1 *)

GivenFor(u, v) == {k \in 1..Len(calls) : calls[k][1] = u /\ calls[k][2] = v}

\* C1: after any sequence of add_edge calls there is at most one edge per ordered
\* pair, it exists exactly when the pair was given, its duration is the one of the
\* latest call for the pair, and in_degree[v] counts the distinct sources of v.
C1_AddEdgeUpserts ==
    /\ \A u \in NodeIds, v \in NodeIds :
          /\ Cardinality(EdgeIdx(u, v)) <= 1
          /\ HasEdge(u, v) <=> GivenFor(u, v) # {}
          /\ GivenFor(u, v) # {} => HasEdgeOf(u, v, calls[MaxOf(GivenFor(u, v))][3])
    /\ \A v \in NodeIds : in_degree[v] = Cardinality({u \in NodeIds : HasEdge(u, v)})

\* (A,B,5) then (A,B,8): one edge A->B of duration 8, in_degree[B] = 1
C1_Witness ==
    /\ calls = << <<<<"T1", "_start">>, <<"T1", "_end">>, Num(5)>>,
                  <<<<"T1", "_start">>, <<"T1", "_end">>, Num(8)>> >>
    /\ adj[<<"T1", "_start">>] = << <<<<"T1", "_end">>, Num(8)>> >>
    /\ in_degree[<<"T1", "_end">>] = 1

-----------------------------------------------------------------------------
(* C2 *)

NoResultOnCycle ==
    /\ pc \notin {"raised_in_calculate", "raised_in_get_critical_tasks"}
    /\ Calculated => result = None
    /\ pc = "annotated" => critical_tasks = <<>> /\ Flagged = {}

\* C2 as stated: whenever the predecessor lists hold a cycle, calculate_critical_path
\* returns None without raising and get_critical_tasks returns an empty list.
C2_CyclicDataGivesNoResult == CyclicWithin(TaskIdx) => NoResultOnCycle

\* C2 as amended: whenever the predecessor lists hold a cycle among tasks that have a
\* key and a resolvable duration, calculate_critical_path returns None without
\* raising and get_critical_tasks returns an empty list.
C2_ResolvedCycleGivesNoResult ==
    CyclicWithin({i \in Keyed : ~Unresolvable(tasks[i])}) => NoResultOnCycle

\* T1 and T2 name each other, both with a duration, and get_critical_tasks has returned
C2_Witness ==
    /\ pc = "annotated"
    /\ result = None
    /\ \E i \in Keyed, j \in Keyed :
          /\ i # j
          /\ ~Unresolvable(tasks[i]) /\ ~Unresolvable(tasks[j])
          /\ tasks[i].key \in Range(tasks[j].predecessors)
          /\ tasks[j].key \in Range(tasks[i].predecessors)

-----------------------------------------------------------------------------
(* C3, C4; C5 under SpecDiamonds *)

\* C3: when calculate_critical_path returned a result, the greatest ve over the nodes
\* equals the greatest vl over the nodes.
C3_MaxVeEqualsMaxVl ==
    (Calculated /\ result # None) =>
        max_value({ve[n] : n \in DOMAIN ve}) = max_value({vl[n] : n \in DOMAIN vl})

\* a project of positive duration where some node has a latest time below it
C3_Witness ==
    /\ pc = "calculated" /\ result # None
    /\ Less(Zero, result[1].max_time)
    /\ \E n \in DOMAIN vl : Less(vl[n], result[1].max_time)

\* C4: when calculate_critical_path returned a result, ve[n] <= vl[n] for every node.
C4_EarliestNotAfterLatest ==
    (Calculated /\ result # None) => \A n \in Range(nodes) : LessEq(ve[n], vl[n])

\* C5: every edge (u,v,w) of the critical edge set has ve[u] = vl[v] - w and
\* ve[u] + w = ve[v].
C5_CriticalEdgesAreTight ==
    (Calculated /\ result # None) =>
        \A k \in 1..Len(critical_path) :
            LET u == critical_path[k][1]
                v == critical_path[k][2]
                w == critical_path[k][3]
            IN  ve[u] = Minus(vl[v], w) /\ Plus(ve[u], w) = ve[v]

-----------------------------------------------------------------------------
(* C6 *)

\* the tasks whose own edge task_start -> task_end is critical with duration w
OwnEdgeCritical(i, w) ==
    <<start_id(tasks[i].key), end_id(tasks[i].key), w>> \in Range(critical_path)

CriticalWork == {i \in Keyed : \E k \in 1..Len(critical_path) :
                    /\ Less(Zero, critical_path[k][3])
                    /\ OwnEdgeCritical(i, critical_path[k][3])}

\* C6: get_critical_tasks lists, once each, exactly the tasks whose own edge is critical
\* with a positive duration, and exactly those carry keytask; before it ran no task
\* is listed or flagged.
C6_CriticalTasksAreExact ==
    /\ pc = "annotated" =>
          /\ Range(critical_tasks) = CriticalWork
          /\ Len(critical_tasks) = Cardinality(CriticalWork)
          /\ Flagged = CriticalWork
    /\ pc # "annotated" => critical_tasks = <<>> /\ Flagged = {}

\* a listed task beside a task whose own edge is critical with duration 0
C6_Witness ==
    /\ pc = "annotated"
    /\ Flagged # {}
    /\ \E i \in Keyed : OwnEdgeCritical(i, Zero) /\ i \notin Flagged

-----------------------------------------------------------------------------
(* C7, under SpecChains *)

ChainA == {i \in TaskIdx : tasks[i].key \in {"T1", "T2"}}
ChainB == {i \in TaskIdx : tasks[i].key \in {"T3", "T4"}}

RECURSIVE SecondsSum(_)
SecondsSum(S) ==
    IF S = {} THEN 0
    ELSE LET i == CHOOSE x \in S : TRUE IN Seconds(i) + SecondsSum(S \ {i})

LongerChain == IF SecondsSum(ChainA) > SecondsSum(ChainB) THEN ChainA ELSE ChainB

\* C7, on chains whose tasks all have a positive duration: with two chains of
\* different duration sums, exactly the tasks of the chain with the greater sum are
\* flagged keytask.
C7_LongerChainIsFlagged ==
    (/\ pc = "annotated"
     /\ \A i \in TaskIdx : Seconds(i) > 0
     /\ SecondsSum(ChainA) # SecondsSum(ChainB)) =>
        Flagged = LongerChain

-----------------------------------------------------------------------------
(* C8 *)

\* C8 as stated: once build_graph_from_tasks has ended, every parent P and every
\* subtask S of P in the list have P_start -> S_start (0) when S lists no predecessor
\* and S_end -> P_end (0) when no task lists S as a predecessor, and S keeps its own
\* duration edge and its predecessor edges.
C8_SubtasksAreWired ==
    BuildEnded =>
        \A p \in Keyed : \A s \in Keyed :
            tasks[s].key \in Range(tasks[p].subtasks) =>
                /\ tasks[s].predecessors = <<>> =>
                      HasEdgeOf(start_id(tasks[p].key), start_id(tasks[s].key), Zero)
                /\ tasks[s].key \notin referenced_tasks(tasks) =>
                      HasEdgeOf(end_id(tasks[s].key), end_id(tasks[p].key), Zero)
                /\ (~Unresolvable(tasks[s]) /\ tasks[s].subtasks = <<>>) =>
                      HasEdgeOf(start_id(tasks[s].key), end_id(tasks[s].key), Duration(s))
                /\ ~Unresolvable(tasks[s]) =>
                      \A q \in Range(tasks[s].predecessors) :
                          HasEdgeOf(end_id(q), start_id(tasks[s].key), Zero)

-----------------------------------------------------------------------------
(* C9 *)

Built == pc # "input"

-----------------------------------------------------------------------------
(* C10 *)

\* C10 as stated: a task without a resolvable duration, wherever it stands in the
\* hierarchy, does not keep build_graph_from_tasks from completing.
C10_UnresolvedNeverAborts ==
    (\E i \in TaskIdx : Unresolvable(tasks[i])) => pc # "raised_in_build"


-----------------------------------------------------------------------------
(* The entry point find_critical_path(project_key) *)

\* two records, the first without a key and possibly without isSubtask
Keyless ==
    {<<[Task(NoneKey, FALSE, KeyList(s1), KeyList(p1), t1) EXCEPT !.isSubtask = b1],
       Task("T2", b2, <<>>, <<>>, t2)>> :
        b1 \in {None, Some(FALSE), Some(TRUE)}, s1 \in SUBSET {"T2"},
        p1 \in SUBSET {"T2"}, b2 \in BOOLEAN, t1 \in Timings, t2 \in Timings}

\* two tasks that may name each other, T2 possibly a subtask of T1
Pairs ==
    {<<Task("T1", FALSE, KeyList(s1), KeyList(p1), t1),
       Task("T2", b2, <<>>, KeyList(p2), t2)>> :
        s1 \in SUBSET {"T2"}, p1 \in SUBSET {"T2"}, b2 \in BOOLEAN,
        p2 \in SUBSET {"T1"}, t1 \in Timings, t2 \in Timings}

\* what ProjectIssueCache.get_project_issues gives: None when its own handler caught
\* an exception, an empty list, or a list of records
Fetchable == {None, Some(<<>>)} \cup {Some(l) : l \in Keyless \cup Pairs}

\* the values find_critical_path returns: None, [] or the dict of both lists
PyNone == [kind |-> "None", tasks |-> <<>>, critical |-> <<>>]
EmptyList == [kind |-> "list", tasks |-> <<>>, critical |-> <<>>]
Dict(ts, listed) == [kind |-> "dict", tasks |-> ts, critical |-> listed]

\* the state of a run: the graph and the solver of the AOEGraph instance, the task
\* records, the value and whether an exception is under way
Run(g, c, value, raised) ==
    [g |-> g, ve |-> c.ve, vl |-> c.vl, critical_path |-> c.critical_path,
     ret |-> c.ret, tasks |-> c.tasks, listed |-> c.listed, value |-> value,
     raised |-> raised]

NewSolver(ts) ==
    [ve |-> <<>>, vl |-> <<>>, critical_path |-> <<>>, ret |-> None, tasks |-> ts,
     listed |-> <<>>]

\* the try block after get_critical_tasks: the dict is returned
try_annotated(g, c) ==
    IF c.raised THEN Run(g, c, PyNone, TRUE)
    ELSE Run(g, c, Dict(c.tasks, c.listed), FALSE)

\* the try block after build_graph_from_tasks
try_built(b, ts) ==
    IF b.raised THEN Run(b.g, NewSolver(ts), PyNone, TRUE)
    ELSE try_annotated(b.g, get_critical_tasks(b.g, NewSolver(ts), ts))

\* the body of the try statement; len(None) raises TypeError
try_body(fetched, key) ==
    IF fetched = None THEN Run(EmptyGraph, NewSolver(<<>>), PyNone, TRUE)
    ELSE IF Len(fetched[1]) = 0 THEN Run(EmptyGraph, NewSolver(<<>>), PyNone, FALSE)
    ELSE try_built(build_graph_from_tasks(EmptyGraph, fetched[1], key), fetched[1])

\* find_critical_path without its except clause
find_critical_path_unguarded(fetched, key) == try_body(fetched, key)

\* except Exception as e: return []
except_exception(r) ==
    IF r.raised THEN [r EXCEPT !.value = EmptyList, !.raised = FALSE] ELSE r

find_critical_path(fetched, key) == except_exception(try_body(fetched, key))

InitFind ==
    /\ tasks = <<>>
    /\ NewGraph
    /\ pc = "idle"
    /\ returned = None
    /\ peer = None
    /\ all_paths = <<>>
    /\ duration_hours = None
    /\ frame = None

\* the caller has the value r.value, or the exception, of a run that ended as r
Returns(r) ==
    /\ tasks' = r.tasks
    /\ nodes' = r.g.nodes
    /\ adj' = r.g.adj
    /\ in_degree' = r.g.in_degree
    /\ ve' = r.ve
    /\ vl' = r.vl
    /\ critical_path' = r.critical_path
    /\ result' = r.ret
    /\ critical_tasks' = r.listed
    /\ returned' = IF r.raised THEN None ELSE Some(r.value)
    /\ pc' = IF r.raised THEN "escaped" ELSE "returned"

\* find_critical_path(project_key), the collaborator giving fetched
FindCriticalPath(fetched) ==
    /\ pc = "idle"
    /\ Returns(find_critical_path(fetched, ProjectKey))
    /\ UNCHANGED <<calls, peer, all_paths, duration_hours, frame>>

NextFind == \E fetched \in Fetchable : FindCriticalPath(fetched)

SpecFind == InitFind /\ [][NextFind]_vars

-----------------------------------------------------------------------------
(* C11, under SpecFind *)

\* C11: find_critical_path lets no exception escape and always returns a value,
\* whatever the task-listing collaborator supplied.
C11_FindNeverRaises ==
    /\ pc # "escaped"
    /\ pc = "returned" => returned # None

\* the build raised on a subtask without a duration and the caller got []
C11_Witness ==
    /\ pc = "returned"
    /\ returned = Some(EmptyList)
    /\ \E u \in NodeIds : adj[u] # <<>>


-----------------------------------------------------------------------------
(* C12, under SpecKeyless *)

\* the calls of find_critical_path on the lists with a record without key
InitKeyless == InitTasks(Keyless)

SpecKeyless == InitKeyless /\ [][Next]_vars

\* the node ids that the f-strings derive from record i
OwnNodes(i) == {start_id(tasks[i].key), end_id(tasks[i].key)}

Incident(n) == adj[n] # <<>> \/ \E u \in NodeIds : HasEdge(u, n)

\* C12: a record without key is skipped for edge creation: once build_graph_from_tasks
\* has run no edge starts or ends at a node derived from that record, and the record
\* is as it was supplied.
C12_KeylessHasNoEdge ==
    Built => \A i \in TaskIdx \ Keyed :
                 /\ \A n \in OwnNodes(i) : ~Incident(n)
                 /\ ~tasks[i].keytask


-----------------------------------------------------------------------------
(* A caller that runs the builder and the solver a second time *)

\* the second run after its build, which raised
RebuildRaised(fresh, g) ==
    /\ nodes' = g.nodes
    /\ adj' = g.adj
    /\ in_degree' = g.in_degree
    /\ ve' = IF fresh THEN <<>> ELSE ve
    /\ vl' = IF fresh THEN <<>> ELSE vl
    /\ critical_path' = IF fresh THEN <<>> ELSE critical_path
    /\ result' = None
    /\ pc' = "raised_again"

\* the second run after its calculate_critical_path
Recalculated(g, c) ==
    /\ nodes' = g.nodes
    /\ adj' = g.adj
    /\ in_degree' = g.in_degree
    /\ ve' = c.ve
    /\ vl' = c.vl
    /\ critical_path' = c.critical_path
    /\ result' = c.ret
    /\ pc' = IF c.raised THEN "raised_again" ELSE "ran_again"

Rebuilt(fresh, b) ==
    IF b.raised THEN RebuildRaised(fresh, b.g)
    ELSE Recalculated(b.g, calculate_critical_path(b.g, IF fresh THEN NewSolver(tasks)
                                                        ELSE solver))

\* build_graph_from_tasks and calculate_critical_path once more on the records as
\* they are now, on a new AOEGraph or on the same one
RunAgain(fresh) ==
    /\ pc \in {"calculated", "annotated"}
    /\ Rebuilt(fresh, build_graph_from_tasks(IF fresh THEN EmptyGraph ELSE graph, tasks,
                                             ProjectKey))
    /\ UNCHANGED <<tasks, critical_tasks, calls, returned, peer, all_paths, duration_hours, frame>>

NextTwice == Next \/ \E fresh \in BOOLEAN : RunAgain(fresh)

InitTwice == InitTasks(Pairs \cup Chains)

SpecTwice == InitTwice /\ [][NextTwice]_vars

-----------------------------------------------------------------------------
(* C13, under SpecTwice *)

SecondRun == pc \in {"calculated", "annotated"} /\ pc' \in {"ran_again", "raised_again"}

\* C13: a second run of build_graph_from_tasks and calculate_critical_path on records
\* of the same field values ends with the ve, the vl and the critical edge set of the
\* first run, whether or not the first run wrote keytask flags.
C13_SecondRunGivesTheSame ==
    [][SecondRun => /\ pc' = "ran_again"
                    /\ ve' = ve
                    /\ vl' = vl
                    /\ Range(critical_path') = Range(critical_path)]_vars

\* a second run after the first one flagged a task
C13_Witness ==
    /\ pc = "ran_again"
    /\ Flagged # {}
    /\ critical_path # <<>>


-----------------------------------------------------------------------------
(* Two computations, for two projects, with their calls interleaved *)

\* nodes, adj and in_degree as attributes of the class, which every instance shares
class_attributes(mine, others) ==
    [nodes |-> mine.nodes \o SelectSeq(others.nodes, LAMBDA n : n \notin Range(mine.nodes)),
     adj |-> [n \in NodeIds |-> mine.adj[n] \o others.adj[n]],
     in_degree |-> [n \in NodeIds |-> mine.in_degree[n] + others.in_degree[n]]]

\* self.nodes, self.adj, self.in_degree: the objects that __init__ bound to this
\* instance, whatever the other instances of the process hold
instance_attributes(mine, others) == mine

PairsOf(timings) ==
    {<<Task("T1", FALSE, KeyList(s1), KeyList(p1), t1),
       Task("T2", b2, <<>>, KeyList(p2), t2)>> :
        s1 \in SUBSET {"T2"}, p1 \in SUBSET {"T2"}, b2 \in BOOLEAN,
        p2 \in SUBSET {"T1"}, t1 \in timings, t2 \in timings}

\* the second caller before its first call
NewPeer(ts) ==
    [tasks |-> ts, g |-> EmptyGraph,
     s |-> [ve |-> <<>>, vl |-> <<>>, critical_path |-> <<>>, ret |-> None],
     listed |-> <<>>, pc |-> "input"]

InitTwo ==
    /\ tasks \in Chain("T1", "T2")
    /\ NewGraph
    /\ pc = "input"
    /\ returned = None
    /\ peer \in {NewPeer(ts) : ts \in PairsOf({NoTiming, Estimated(1200)})}
    /\ all_paths = <<>>
    /\ duration_hours = None
    /\ frame = None

own == <<tasks, nodes, adj, in_degree, ve, vl, critical_path, result, critical_tasks,
         pc, calls, returned, all_paths, duration_hours, frame>>

\* what a build of the second caller that ended as b leaves
PeerBuilt(b) ==
    peer' = [peer EXCEPT !.g = b.g,
                         !.pc = IF b.raised THEN "raised_in_build" ELSE "built"]

\* what a calculation of the second caller that ended as c leaves
PeerCalculated(c) ==
    peer' = [peer EXCEPT !.s = [ve |-> c.ve, vl |-> c.vl,
                                critical_path |-> c.critical_path, ret |-> c.ret],
                         !.pc = IF c.raised THEN "raised_in_calculate" ELSE "calculated"]

\* what a get_critical_tasks of the second caller that ended as c leaves
PeerAnnotated(c) ==
    peer' = [peer EXCEPT !.s = [ve |-> c.ve, vl |-> c.vl,
                                critical_path |-> c.critical_path, ret |-> c.ret],
                         !.tasks = c.tasks,
                         !.listed = c.listed,
                         !.pc = IF c.raised THEN "raised_in_get_critical_tasks"
                                ELSE "annotated"]

\* the second caller: graph.build_graph_from_tasks(tasks, key=project_key, ...)
PeerBuildGraphFromTasks ==
    /\ peer.pc = "input"
    /\ PeerBuilt(build_graph_from_tasks(instance_attributes(peer.g, graph), peer.tasks,
                                        PeerKey))
    /\ UNCHANGED own

\* the second caller: graph.calculate_critical_path()
PeerCalculateCriticalPath ==
    /\ peer.pc = "built"
    /\ PeerCalculated(calculate_critical_path(instance_attributes(peer.g, graph), peer.s))
    /\ UNCHANGED own

\* the second caller: graph.get_critical_tasks()
PeerGetCriticalTasks ==
    /\ peer.pc \in {"built", "calculated"}
    /\ PeerAnnotated(get_critical_tasks(instance_attributes(peer.g, graph), peer.s,
                                        peer.tasks))
    /\ UNCHANGED own

NextTwo ==
    \/ BuildGraphFromTasks
    \/ CalculateCriticalPath
    \/ GetCriticalTasks
    \/ PeerBuildGraphFromTasks
    \/ PeerCalculateCriticalPath
    \/ PeerGetCriticalTasks

SpecTwo == InitTwo /\ [][NextTwo]_vars

-----------------------------------------------------------------------------
(* C14, under SpecTwo *)

\* the build and the calculation of a task list on an AOEGraph of its own, with
\* nothing else running
Alone(ts, key) ==
    calculate_critical_path(build_graph_from_tasks(EmptyGraph, ts, key).g, NewSolver(ts))

SameAsAlone(s, ts, key) ==
    /\ s.ve = Alone(ts, key).ve
    /\ s.vl = Alone(ts, key).vl
    /\ s.critical_path = Alone(ts, key).critical_path

\* C14: two computations for different projects, their calls interleaved in any
\* order, each end with the ve, vl and critical edges of the computation run alone,
\* and no call of one changes the graph, the times or the critical edges of the other.
C14_ComputationsDoNotInterfere ==
    /\ [](/\ Calculated => SameAsAlone(solver, tasks, ProjectKey)
          /\ peer.pc \in {"calculated", "annotated"}
                 => SameAsAlone(peer.s, peer.tasks, PeerKey))
    /\ [][(peer' # peer => UNCHANGED own) /\ (own' # own => peer' = peer)]_vars

\* both computations have ended with critical edges, each with its own
C14_Witness ==
    /\ pc = "annotated"
    /\ peer.pc = "annotated"
    /\ critical_path # <<>>
    /\ peer.s.critical_path # <<>>
    /\ peer.s.ve # ve


-----------------------------------------------------------------------------
(* C15, under SpecTwice *)

\* record i after the step is record i before it, keytask apart
KeepsFields(i) == [tasks'[i] EXCEPT !.keytask = tasks[i].keytask] = tasks[i]

\* C15: no call of the computation changes a field of a task record other than
\* keytask, none adds or drops a record, and keytask is written only on records that
\* the same call returns as critical.
C15_OnlyKeytaskIsWritten ==
    [][/\ Len(tasks') = Len(tasks)
       /\ \A i \in TaskIdx :
              /\ KeepsFields(i)
              /\ tasks'[i].keytask # tasks[i].keytask
                     => pc' = "annotated" /\ i \in Range(critical_tasks')]_vars

\* get_critical_tasks flagged one record and left another one as it was
C15_Witness ==
    /\ pc = "annotated"
    /\ Flagged # {}
    /\ \E i \in TaskIdx \ Flagged : OwnEdgeCritical(i, Zero)


-----------------------------------------------------------------------------
(* C16, under SpecDangling *)

\* two tasks whose predecessor and subtask lists may name T4, which is not supplied
Dangling ==
    {<<Task("T1", FALSE, KeyList(s1), KeyList(p1), t1),
       Task("T2", b2, <<>>, KeyList(p2), t2)>> :
        s1 \in SUBSET {"T2", "T4"}, p1 \in SUBSET {"T2", "T4"}, b2 \in BOOLEAN,
        p2 \in SUBSET {"T1"}, t1 \in {Estimated(900), NoTiming},
        t2 \in {Estimated(1200), NoTiming}}

InitDangling == InitTasks(Dangling)

SpecDangling == InitDangling /\ [][Next]_vars

Successors(n) == {adj[n][i][1] : i \in 1..Len(adj[n])}

\* the node ids that a path of one edge or more reaches from X
RECURSIVE ReachedFrom(_)
ReachedFrom(X) ==
    LET Y == X \cup UNION {Successors(n) : n \in X}
    IN  IF Y = X THEN X ELSE ReachedFrom(Y)

HasCycle == \E n \in NodeIds : n \in ReachedFrom(Successors(n))

TopoShort == Len(topological_sort(graph, ve).topo_order) < Len(nodes)

\* C16: whatever keys the predecessor and subtask lists name, the topological order
\* is shorter than the node count, and calculate_critical_path returns None, exactly
\* when the built graph has a directed cycle.
C16_ShortOrderMeansCycle ==
    pc = "calculated" => /\ TopoShort <=> HasCycle
                         /\ result = None <=> HasCycle


-----------------------------------------------------------------------------
(* C17, under SpecDangling *)

\* the edges into v, each as <<source, position in adj[source]>>
EdgesInto(v) == UNION {{<<u, i>> : i \in EdgeIdx(u, v)} : u \in NodeIds}

\* the greatest total duration over the paths that end at v and start at a node
\* without incoming edge, the durations added along the path as Python adds them;
\* defined on an acyclic graph
RECURSIVE GreatestPathTotal(_)
GreatestPathTotal(v) ==
    IF EdgesInto(v) = {} THEN Zero
    ELSE max_value({Plus(GreatestPathTotal(e[1]), adj[e[1]][e[2]][2]) : e \in EdgesInto(v)})

\* C17: on every acyclic graph, after calculate_critical_path ve[v] of every node is
\* the greatest total duration over the paths from a node without incoming edge to v,
\* and the project duration returned is the greatest ve.
C17_EarliestIsLongestPath ==
    pc = "calculated" /\ ~HasCycle =>
        /\ \A v \in Range(nodes) : ve[v] = GreatestPathTotal(v)
        /\ result # None
        /\ result[1].max_time = max_value({ve[v] : v \in Range(nodes)})


-----------------------------------------------------------------------------
(* C18, under SpecTwice *)

\* the tasks with a key and a non-empty subtasks list
Parents == {i \in Keyed : tasks[i].subtasks # <<>>}

BuildCompleted == pc \notin {"input", "raised_in_build"}

-----------------------------------------------------------------------------
(* C19, under SpecTwice *)

FromProjectStart(i) == HasEdge(start_id(ProjectKey), start_id(tasks[i].key))

FromPredecessor(i, p) == HasEdge(end_id(p), start_id(tasks[i].key))

\* the incoming edges of task i that rule 2 describes
Wired(i) ==
    /\ tasks[i].predecessors # <<>> =>
           /\ \A p \in Range(tasks[i].predecessors) :
                  HasEdgeOf(end_id(p), start_id(tasks[i].key), Zero)
           /\ ~FromProjectStart(i)
    /\ tasks[i].predecessors = <<>> /\ tasks[i].isSubtask = Some(FALSE) =>
           HasEdgeOf(start_id(ProjectKey), start_id(tasks[i].key), Zero)
    /\ tasks[i].predecessors = <<>> /\ tasks[i].isSubtask = Some(TRUE) =>
           ~FromProjectStart(i)

\* C19 as stated: in the built graph every task with a key has a 0-duration edge
\* predecessor_end -> task_start for each listed predecessor and none from the
\* project start; without predecessors it has the 0-duration edge project_start ->
\* task_start when it is not a subtask, and no edge from the project start when it is.
C19_EveryKeyedTaskIsWired == Built => \A i \in Keyed : Wired(i)

\* C19 as amended: the same for every task with a key and a resolvable duration; a
\* task with a key and no resolvable duration has no edge from a predecessor's end
\* node and none from the project start.
C19_ResolvedTaskIsWired ==
    Built => \A i \in Keyed :
                 IF Unresolvable(tasks[i])
                 THEN /\ ~FromProjectStart(i)
                      /\ \A p \in Keys : ~FromPredecessor(i, p)
                 ELSE Wired(i)

\* T2 follows T1 and is wired to it, T1 has no duration and is not wired to the
\* project start
C19_Witness ==
    /\ Built
    /\ \E i \in Keyed, j \in Keyed :
           /\ ~Unresolvable(tasks[i])
           /\ tasks[i].predecessors = <<tasks[j].key>>
           /\ HasEdgeOf(end_id(tasks[j].key), start_id(tasks[i].key), Zero)
           /\ Unresolvable(tasks[j])
           /\ tasks[j].predecessors = <<>>
           /\ tasks[j].isSubtask = Some(FALSE)
           /\ ~FromProjectStart(j)


-----------------------------------------------------------------------------
(* C20, under SpecTwice *)

\* not a subtask, and named in no predecessor list
EndTask(i) == tasks[i].isSubtask = Some(FALSE) /\ tasks[i].key \notin referenced_tasks(tasks)

IntoProjectEnd(i) == HasEdge(end_id(tasks[i].key), end_id(ProjectKey))

\* C20: the graph that build_graph_from_tasks leaves has a 0-duration edge task_end ->
\* project_end for exactly the tasks that are not subtasks and that no task lists as a
\* predecessor.
C20_EndTasksAreWired ==
    Built => \A i \in TaskIdx :
                 /\ EndTask(i) => HasEdgeOf(end_id(tasks[i].key), end_id(ProjectKey), Zero)
                 /\ IntoProjectEnd(i) => EndTask(i)


-----------------------------------------------------------------------------
(* C21, under SpecTwice *)

\* the nodes from which a path, possibly empty, leads to n
CanReach(n) == {m \in NodeIds : n \in ReachedFrom({m})}

\* C21: in the graph that build_graph_from_tasks completed from a task list whose
\* predecessor relation is acyclic, every node that a path from the project-start
\* node reaches can reach the project-end node.
C21_ReachableNodesReachTheEnd ==
    BuildCompleted /\ ~CyclicWithin(TaskIdx) =>
        ReachedFrom(Successors(start_id(ProjectKey))) \subseteq CanReach(end_id(ProjectKey))


-----------------------------------------------------------------------------
(* Path enumeration: find_all_critical_paths *)

\* critical_graph[node]: the targets of the critical edges that leave node, in the
\* order of self.critical_path
critical_graph(cp, node) ==
    LET out == SelectSeq(cp, LAMBDA e : e[1] = node)
    IN  [i \in 1..Len(out) |-> out[i][2]]

\* every node taken as a start candidate
start_nodes_all(g) == g.nodes

\* [node for node in self.nodes if self.in_degree[node] == 0]
start_nodes(g) == SelectSeq(g.nodes, LAMBDA n : g.in_degree[n] = 0)

\* [node for node in self.nodes if not self.adj[node]]
end_nodes(g) == SelectSeq(g.nodes, LAMBDA n : g.adj[n] = <<>>)

\* a walk that follows the first critical edge only
extensions_first_only(cp, path) ==
    LET next == SelectSeq(critical_graph(cp, path[Len(path)]),
                          LAMBDA n : n \notin Range(path))
    IN  IF next = <<>> THEN <<>> ELSE <<Append(path, next[1])>>

\* the stack entries pushed for a popped path: one per next_node not in path
extensions(cp, path) ==
    LET next == SelectSeq(critical_graph(cp, path[Len(path)]),
                          LAMBDA n : n \notin Range(path))
    IN  [i \in 1..Len(next) |-> Append(path, next[i])]

\* while stack: the stack holds the paths, the node of an entry is the last of its path
RECURSIVE walk(_, _, _, _)
walk(stack, cp, ends, paths) ==
    IF stack = <<>> THEN paths
    ELSE IF stack[Len(stack)][Len(stack[Len(stack)])] \in ends
    THEN walk(SubSeq(stack, 1, Len(stack) - 1), cp, ends,
              Append(paths, stack[Len(stack)]))
    ELSE walk(SubSeq(stack, 1, Len(stack) - 1) \o extensions(cp, stack[Len(stack)]),
              cp, ends, paths)

\* for start in start_nodes
RECURSIVE walk_from(_, _, _, _, _)
walk_from(starts, k, cp, ends, paths) ==
    IF k > Len(starts) THEN paths
    ELSE walk_from(starts, k + 1, cp, ends, walk(<<<<starts[k]>>>>, cp, ends, paths))

\* c is the solver after the calculation that an empty self.critical_path asks for
enumerate(g, c) ==
    [ve |-> c.ve, vl |-> c.vl, critical_path |-> c.critical_path, ret |-> c.ret,
     raised |-> c.raised,
     all_paths |-> IF c.raised THEN <<>>
                   ELSE walk_from(start_nodes(g), 1, c.critical_path,
                                  Range(end_nodes(g)), <<>>)]

find_all_critical_paths(g, s) ==
    enumerate(g, IF s.critical_path = <<>>
                 THEN calculate_critical_path(g, s)
                 ELSE [ve |-> s.ve, vl |-> s.vl, critical_path |-> s.critical_path,
                       ret |-> s.ret, raised |-> FALSE])

\* what a call of find_all_critical_paths that ended as r leaves
Enumerated(r) ==
    /\ ve' = r.ve
    /\ vl' = r.vl
    /\ critical_path' = r.critical_path
    /\ result' = IF r.raised THEN result ELSE r.ret
    /\ all_paths' = r.all_paths
    /\ pc' = IF r.raised THEN "raised_in_find_all_critical_paths" ELSE "enumerated"

\* graph.find_all_critical_paths()
FindAllCriticalPaths ==
    /\ pc \in {"built", "calculated", "annotated"}
    /\ Enumerated(find_all_critical_paths(graph, solver))
    /\ UNCHANGED <<tasks, nodes, adj, in_degree, critical_tasks, calls, returned, peer, duration_hours, frame>>

NextPaths == Next \/ FindAllCriticalPaths

\* T1 -> T3 beside T2, both before T4, the estimates in quarters of an hour
Branches ==
    {<<Task("T1", FALSE, <<>>, <<>>, Estimated(e1)),
       Task("T2", FALSE, <<>>, <<>>, Estimated(e2)),
       Task("T3", FALSE, <<>>, <<"T1">>, Estimated(e3)),
       Task("T4", FALSE, <<>>, <<"T2", "T3">>, Estimated(900))>> :
        e1 \in {900, 1200}, e2 \in {1800, 2100, 2700}, e3 \in {900, 1800}}

InitPaths == InitTasks(Pairs \cup Branches \cup Dangling)

SpecPaths == InitPaths /\ [][NextPaths]_vars


-----------------------------------------------------------------------------
(* C22, C23, under SpecPaths *)

PathsReturned == pc = "enumerated"

CriticalPair(u, v) == \E e \in Range(critical_path) : e[1] = u /\ e[2] = v

\* a start candidate, then critical edges only, no node twice, an end candidate last
WellFormedPath(p) ==
    /\ p # <<>>
    /\ p[1] \in Range(nodes) /\ in_degree[p[1]] = 0
    /\ p[Len(p)] \in Range(nodes) /\ adj[p[Len(p)]] = <<>>
    /\ \A i \in 1..(Len(p) - 1) : CriticalPair(p[i], p[i + 1])
    /\ \A i \in 1..Len(p), j \in 1..Len(p) : p[i] = p[j] => i = j

\* C22: every path that find_all_critical_paths returns starts at a node of in-degree
\* zero in the full graph, ends at a node without outgoing edge in the full graph, has
\* its consecutive nodes joined by critical edges and holds no node twice.
C22_PathsAreWellFormed ==
    PathsReturned => \A k \in 1..Len(all_paths) : WellFormedPath(all_paths[k])

\* two paths returned, one of them from the project start to the project end
C22_Witness ==
    /\ PathsReturned
    /\ Len(all_paths) >= 2
    /\ \E k \in 1..Len(all_paths) :
           /\ all_paths[k][1] = start_id(ProjectKey)
           /\ all_paths[k][Len(all_paths[k])] = end_id(ProjectKey)


\* the targets of the critical edges that leave n
CriticalSuccessors(n) == {e[2] : e \in {x \in Range(critical_path) : x[1] = n}}

\* the paths of critical edges from n to a node without outgoing edge; defined when
\* the critical edges hold no cycle
RECURSIVE CriticalPathsFrom(_)
CriticalPathsFrom(n) ==
    IF adj[n] = <<>> THEN {<<n>>}
    ELSE UNION {{<<n>> \o p : p \in CriticalPathsFrom(v)} : v \in CriticalSuccessors(n)}

AllCriticalPaths ==
    UNION {CriticalPathsFrom(n) : n \in {m \in Range(nodes) : in_degree[m] = 0}}

\* C23: on an acyclic graph find_all_critical_paths returns every path of critical
\* edges from a node of in-degree zero to a node without outgoing edge, each exactly
\* once; with two parallel critical branches the paths through both are returned.
C23_EveryCriticalPathOnce ==
    PathsReturned /\ ~HasCycle =>
        /\ Range(all_paths) = AllCriticalPaths
        /\ \A i \in 1..Len(all_paths), j \in 1..Len(all_paths) :
               all_paths[i] = all_paths[j] => i = j

\* two paths from the project start to the project end, through T2 and through T3,
\* that meet again at T4
C23_Witness ==
    /\ PathsReturned
    /\ Len(all_paths) = 2
    /\ \A k \in 1..2 : /\ all_paths[k][1] = start_id(ProjectKey)
                       /\ all_paths[k][Len(all_paths[k])] = end_id(ProjectKey)
                       /\ start_id("T4") \in Range(all_paths[k])
    /\ \E k \in 1..2 : end_id("T2") \in Range(all_paths[k])
    /\ \E k \in 1..2 : end_id("T3") \in Range(all_paths[k])



-----------------------------------------------------------------------------
(* The duration resolver on its own: one record, one call *)
(* C24, C25, under SpecDuration *)

\* Wednesday 2025-04-02 to Tuesday 2025-04-08; Friday the 4th is a public holiday on
\* a working day, the 5th and 6th are a weekend
DateFields ==
    {Absent, Malformed, DateStr(3, TRUE)} \cup {DateStr(d, FALSE) : d \in {2, 4, 6, 8}}

\* no estimate, 0, a negative one, and positive ones
EstimateFields == {None, Some(0), Some(0 - 3600), Some(900), Some(5400)}

Records ==
    {Task("T1", FALSE, <<>>, <<>>,
          [plan_start |-> ps, actual_start |-> as, plan_end |-> pe, actual_end |-> ae,
           aggregatetimeoriginalestimate |-> est]) :
        ps \in DateFields, as \in DateFields, pe \in DateFields, ae \in DateFields,
        est \in EstimateFields}

InitDuration ==
    /\ tasks \in {<<r>> : r \in Records}
    /\ NewGraph
    /\ pc = "input"
    /\ returned = None
    /\ peer = None
    /\ all_paths = <<>>
    /\ duration_hours = None
    /\ frame = None

\* graph.calculate_task_duration(task); frame keeps the locals task_start and task_end
CalculateTaskDuration ==
    /\ pc = "input"
    /\ duration_hours' = calculate_task_duration(tasks[1])
    /\ frame' = [task_start |-> task_start_of(tasks[1]), task_end |-> task_end_of(tasks[1])]
    /\ pc' = "resolved"
    /\ UNCHANGED <<tasks, nodes, adj, in_degree, ve, vl, critical_path, result,
                   critical_tasks, calls, returned, peer, all_paths>>

NextDuration == CalculateTaskDuration

SpecDuration == InitDuration /\ [][NextDuration]_vars

Resolved == pc = "resolved"

\* the date field holds a string that strptime accepts
Parses(field) == field.present /\ field.wellformed

\* C24: calculate_task_duration takes as start the later of plan_start and
\* actual_start when both parse, else the one that parses, else none; given a start
\* it takes as end actual_end when both ends parse and actual_end >= start, plan_end
\* when both parse and actual_end < start, the single end that parses when only one
\* does, and none when neither parses or when there is no start.
C24_StartAndEndAreChosen ==
    Resolved =>
        LET t == tasks[1]
            ps == Parses(t.plan_start)
            as == Parses(t.actual_start)
            pe == Parses(t.plan_end)
            ae == Parses(t.actual_end)
            start == frame.task_start
            end == frame.task_end
        IN  /\ ps /\ as => start = Some(MaxOf({t.plan_start.day, t.actual_start.day}))
            /\ ps /\ ~as => start = Some(t.plan_start.day)
            /\ ~ps /\ as => start = Some(t.actual_start.day)
            /\ ~ps /\ ~as => start = None
            /\ start = None => end = None
            /\ start # None =>
                /\ pe /\ ae /\ t.actual_end.day >= start[1] => end = Some(t.actual_end.day)
                /\ pe /\ ae /\ t.actual_end.day < start[1] => end = Some(t.plan_end.day)
                /\ pe /\ ~ae => end = Some(t.plan_end.day)
                /\ ~pe /\ ae => end = Some(t.actual_end.day)
                /\ ~pe /\ ~ae => end = None

\* both starts parse and differ, both ends parse, and the actual end lies before the
\* start: the plan end is taken
C24_Witness ==
    /\ Resolved
    /\ Parses(tasks[1].plan_start) /\ Parses(tasks[1].actual_start)
    /\ tasks[1].plan_start.day > tasks[1].actual_start.day
    /\ Parses(tasks[1].plan_end) /\ Parses(tasks[1].actual_end)
    /\ tasks[1].actual_end.day < tasks[1].plan_start.day
    /\ frame.task_start = Some(tasks[1].plan_start.day)
    /\ frame.task_end = Some(tasks[1].plan_end.day)

\* the days from a to b inclusive that are Monday to Friday and no public holiday
WorkingDays(a, b) == {d \in a..b : d % 7 < 5 /\ d \notin Holidays}

\* C25: calculate_task_duration returns 8 times the number of days from start to end
\* inclusive that are Monday to Friday and not in the holiday set whenever start and
\* end resolve, the estimate being ignored; otherwise the estimate / 3600 when it is a
\* positive integer; otherwise None; the result is never negative.
C25_DurationIsResolved ==
    Resolved =>
        LET start == frame.task_start
            end == frame.task_end
            est == tasks[1].aggregatetimeoriginalestimate
        IN  /\ IF start # None /\ end # None
               THEN duration_hours = Some(Num(8 * Cardinality(WorkingDays(start[1], end[1]))))
               ELSE IF est # None /\ est[1] > 0
               THEN duration_hours = Some(true_division(est[1], 3600))
               ELSE duration_hours = None
            /\ duration_hours # None => LessEq(Zero, duration_hours[1])

\* Wednesday to Tuesday with the holiday and the weekend in between: four working
\* days, 32 hours, whatever the estimate says
C25_Witness ==
    /\ Resolved
    /\ frame.task_start = Some(2)
    /\ frame.task_end = Some(8)
    /\ tasks[1].aggregatetimeoriginalestimate = Some(900)
    /\ duration_hours = Some(Num(32))



-----------------------------------------------------------------------------
(* The loops of the solver and of the path enumeration, step by step *)
(* C26, under SpecLoops *)

\* a queue that starts with every node
initial_queue_all(g) == g.nodes

\* deque([node for node in self.nodes if in_degree_copy[node] == 0])
initial_queue(g) == SelectSeq(g.nodes, LAMBDA n : g.in_degree[n] = 0)

\* graph.find_all_critical_paths() on a fresh graph enters calculate_critical_path and
\* topological_sort: the in-degree copy, the queue, ve at 0
EnterTopologicalSort ==
    /\ pc = "built"
    /\ critical_path = <<>>
    /\ frame' = [in_degree_copy |-> in_degree, queue |-> initial_queue(graph),
                 topo_order |-> <<>>, stack |-> <<>>, k |-> 0, paths |-> <<>>,
                 u |-> None, i |-> 0, critical_edges |-> <<>>, max_time |-> Zero]
    /\ ve' = [n \in DOMAIN ve \cup Range(nodes) |-> IF n \in Range(nodes) THEN Zero ELSE ve[n]]
    /\ pc' = "while_queue"
    /\ UNCHANGED <<tasks, nodes, adj, in_degree, vl, critical_path, result, critical_tasks,
                   calls, returned, peer, all_paths, duration_hours>>

\* what one iteration of while queue leaves; st is the state after the edges of u
Dequeued(u, st) ==
    /\ ve' = st.ve
    /\ frame' = [frame EXCEPT !.in_degree_copy = st.in_degree_copy,
                              !.queue = st.queue,
                              !.topo_order = Append(@, u)]
    /\ pc' = IF st.raised THEN "raised_in_find_all_critical_paths" ELSE "while_queue"

\* u = queue.popleft() and the loop over self.adj[u]
Dequeue ==
    /\ pc = "while_queue"
    /\ frame.queue # <<>>
    /\ Dequeued(Head(frame.queue),
                relax_edges(adj[Head(frame.queue)], 1, Head(frame.queue),
                            [ve |-> ve, in_degree_copy |-> frame.in_degree_copy,
                             queue |-> Tail(frame.queue), raised |-> FALSE]))
    /\ UNCHANGED <<tasks, nodes, adj, in_degree, vl, critical_path, result, critical_tasks,
                   calls, returned, peer, all_paths, duration_hours>>

\* steps 2 and 3 of calculate_critical_path, given the latest times lv
critical_step(g, s, lv, max_time) ==
    [vl |-> lv, critical_path |-> critical_edges_of(g, 1, s.ve, lv),
     ret |-> Some([critical_edges |-> critical_edges_of(g, 1, s.ve, lv),
                   max_time |-> max_time])]

backward_step(g, s, topo_order, max_time) ==
    critical_step(g, s,
                  backward_pass(g, topo_order, Len(topo_order), initial_vl(g, s.vl, max_time)),
                  max_time)

\* calculate_critical_path after topological_sort returned topo_order
after_topological_sort(g, s, topo_order) ==
    IF Len(topo_order) # Len(g.nodes)
    THEN [vl |-> s.vl, critical_path |-> s.critical_path, ret |-> None]
    ELSE backward_step(g, s, topo_order, max_value({s.ve[n] : n \in DOMAIN s.ve}))

SortReturned(r) ==
    /\ vl' = r.vl
    /\ critical_path' = r.critical_path
    /\ result' = r.ret

\* the queue is empty: topological_sort returns, calculate_critical_path finishes with
\* its for loops, and find_all_critical_paths reaches its loop over the start nodes
SortReturns ==
    /\ pc = "while_queue"
    /\ frame.queue = <<>>
    /\ SortReturned(after_topological_sort(graph, solver, frame.topo_order))
    /\ frame' = [frame EXCEPT !.k = 1]
    /\ pc' = "for_start"
    /\ UNCHANGED <<tasks, nodes, adj, in_degree, ve, critical_tasks,
                   calls, returned, peer, all_paths, duration_hours>>

\* for start in start_nodes: stack = [(start, [start])]
NextStart ==
    /\ pc = "for_start"
    /\ frame.k <= Len(start_nodes(graph))
    /\ frame' = [frame EXCEPT !.stack = <<<<start_nodes(graph)[frame.k]>>>>, !.k = @ + 1]
    /\ pc' = "while_stack"
    /\ UNCHANGED <<tasks, nodes, adj, in_degree, ve, vl, critical_path, result,
                   critical_tasks, calls, returned, peer, all_paths, duration_hours>>

\* one iteration of while stack for the popped path
Popped(rest, path) ==
    frame' = IF path[Len(path)] \in Range(end_nodes(graph))
             THEN [frame EXCEPT !.stack = rest, !.paths = Append(@, path)]
             ELSE [frame EXCEPT !.stack = rest \o extensions(critical_path, path)]

\* node, path = stack.pop()
Pop ==
    /\ pc = "while_stack"
    /\ frame.stack # <<>>
    /\ Popped(SubSeq(frame.stack, 1, Len(frame.stack) - 1), frame.stack[Len(frame.stack)])
    /\ UNCHANGED <<tasks, nodes, adj, in_degree, ve, vl, critical_path, result,
                   critical_tasks, pc, calls, returned, peer, all_paths, duration_hours>>

\* the stack is empty: back to the loop over the start nodes
StackEmpty ==
    /\ pc = "while_stack"
    /\ frame.stack = <<>>
    /\ pc' = "for_start"
    /\ UNCHANGED <<tasks, nodes, adj, in_degree, ve, vl, critical_path, result,
                   critical_tasks, calls, returned, peer, all_paths, duration_hours, frame>>

\* return all_paths
ReturnPaths ==
    /\ pc = "for_start"
    /\ frame.k > Len(start_nodes(graph))
    /\ all_paths' = frame.paths
    /\ pc' = "enumerated"
    /\ UNCHANGED <<tasks, nodes, adj, in_degree, ve, vl, critical_path, result,
                   critical_tasks, calls, returned, peer, duration_hours, frame>>

NextSteps ==
    \/ BuildGraphFromTasks
    \/ EnterTopologicalSort
    \/ Dequeue
    \/ SortReturns
    \/ NextStart
    \/ Pop
    \/ StackEmpty
    \/ ReturnPaths

InitSteps == InitTasks(Pairs \cup Branches \cup Dangling)

\* one iteration of a while loop a step
SpecSteps == InitSteps /\ [][NextSteps]_vars /\ WF_vars(NextSteps)

\* The same run with the for loops one iteration a step

\* u = queue.popleft(); topo_order.append(u)
PopLeft ==
    /\ pc = "while_queue"
    /\ frame.queue # <<>>
    /\ frame' = [frame EXCEPT !.u = Head(frame.queue), !.i = 1,
                              !.queue = Tail(@), !.topo_order = Append(@, Head(frame.queue))]
    /\ pc' = "for_adj"
    /\ UNCHANGED <<tasks, nodes, adj, in_degree, ve, vl, critical_path, result,
                   critical_tasks, calls, returned, peer, all_paths, duration_hours>>

\* one iteration of for v, w in self.adj[u]; self.ve[v] of a v that is no node raises
\* KeyError; after the last edge the while loop goes on
RelaxEdge ==
    /\ pc = "for_adj"
    /\ IF frame.i > Len(adj[frame.u])
       THEN /\ pc' = "while_queue"
            /\ UNCHANGED <<ve, frame>>
       ELSE IF adj[frame.u][frame.i][1] \notin DOMAIN ve
       THEN /\ pc' = "raised_in_find_all_critical_paths"
            /\ UNCHANGED <<ve, frame>>
       ELSE /\ ve' = [ve EXCEPT ![adj[frame.u][frame.i][1]] =
                          earliest(@, ve[frame.u], adj[frame.u][frame.i][2])]
            /\ frame' = [frame EXCEPT
                   !.in_degree_copy[adj[frame.u][frame.i][1]] = @ - 1,
                   !.queue = IF frame.in_degree_copy[adj[frame.u][frame.i][1]] = 1
                             THEN Append(@, adj[frame.u][frame.i][1]) ELSE @,
                   !.i = @ + 1]
            /\ pc' = "for_adj"
    /\ UNCHANGED <<tasks, nodes, adj, in_degree, vl, critical_path, result,
                   critical_tasks, calls, returned, peer, all_paths, duration_hours>>

\* the queue is empty: topological_sort returns topo_order; a short order makes
\* calculate_critical_path return None, otherwise vl starts at max_time
TopologicalSortReturns ==
    /\ pc = "while_queue"
    /\ frame.queue = <<>>
    /\ IF Len(frame.topo_order) # Len(nodes)
       THEN /\ result' = None
            /\ frame' = [frame EXCEPT !.k = 1]
            /\ pc' = "for_start"
            /\ UNCHANGED vl
       ELSE /\ vl' = initial_vl(graph, vl, max_value({ve[n] : n \in DOMAIN ve}))
            /\ frame' = [frame EXCEPT !.k = Len(frame.topo_order), !.i = 1,
                                      !.max_time = max_value({ve[n] : n \in DOMAIN ve})]
            /\ pc' = "for_reversed"
            /\ UNCHANGED result
    /\ UNCHANGED <<tasks, nodes, adj, in_degree, ve, critical_path,
                   critical_tasks, calls, returned, peer, all_paths, duration_hours>>

\* for u in reversed(topo_order): for v, w in self.adj[u], one edge a step
BackwardEdge ==
    /\ pc = "for_reversed"
    /\ IF frame.k < 1
       THEN /\ frame' = [frame EXCEPT !.k = 1, !.i = 1]
            /\ pc' = "for_critical"
            /\ UNCHANGED vl
       ELSE IF frame.i > Len(adj[frame.topo_order[frame.k]])
       THEN /\ frame' = [frame EXCEPT !.k = @ - 1, !.i = 1]
            /\ UNCHANGED <<vl, pc>>
       ELSE /\ vl' = [vl EXCEPT ![frame.topo_order[frame.k]] =
                          latest(@, vl[adj[frame.topo_order[frame.k]][frame.i][1]],
                                 adj[frame.topo_order[frame.k]][frame.i][2])]
            /\ frame' = [frame EXCEPT !.i = @ + 1]
            /\ UNCHANGED pc
    /\ UNCHANGED <<tasks, nodes, adj, in_degree, ve, critical_path, result,
                   critical_tasks, calls, returned, peer, all_paths, duration_hours>>

\* for u in self.nodes: for v, w in self.adj[u], one edge a step; after the last node
\* self.critical_path = critical_edges and the pair is returned
CriticalEdge ==
    /\ pc = "for_critical"
    /\ IF frame.k > Len(nodes)
       THEN /\ critical_path' = frame.critical_edges
            /\ result' = Some([critical_edges |-> frame.critical_edges,
                               max_time |-> frame.max_time])
            /\ frame' = [frame EXCEPT !.k = 1]
            /\ pc' = "for_start"
       ELSE IF frame.i > Len(adj[nodes[frame.k]])
       THEN /\ frame' = [frame EXCEPT !.k = @ + 1, !.i = 1]
            /\ UNCHANGED <<critical_path, result, pc>>
       ELSE /\ frame' = [frame EXCEPT
                   !.critical_edges =
                       IF is_critical(ve[nodes[frame.k]],
                                      Minus(vl[adj[nodes[frame.k]][frame.i][1]],
                                            adj[nodes[frame.k]][frame.i][2]))
                       THEN Append(@, <<nodes[frame.k], adj[nodes[frame.k]][frame.i][1],
                                        adj[nodes[frame.k]][frame.i][2]>>)
                       ELSE @,
                   !.i = @ + 1]
            /\ UNCHANGED <<critical_path, result, pc>>
    /\ UNCHANGED <<tasks, nodes, adj, in_degree, ve, vl,
                   critical_tasks, calls, returned, peer, all_paths, duration_hours>>

NextLoops ==
    \/ EnterTopologicalSort
    \/ PopLeft
    \/ RelaxEdge
    \/ TopologicalSortReturns
    \/ BackwardEdge
    \/ CriticalEdge
    \/ NextStart
    \/ Pop
    \/ StackEmpty
    \/ ReturnPaths

BuiltAs(b) ==
    /\ ~b.raised
    /\ nodes = b.g.nodes
    /\ adj = b.g.adj
    /\ in_degree = b.g.in_degree

\* the graphs that build_graph_from_tasks leaves, before any calculation
InitLoops ==
    /\ tasks \in Pairs \cup Branches \cup Dangling
    /\ BuiltAs(build_graph_from_tasks(
                   [nodes |-> <<>>, adj |-> [n \in NodeIds |-> <<>>],
                    in_degree |-> [n \in NodeIds |-> 0]], tasks, ProjectKey))
    /\ ve = <<>>
    /\ vl = <<>>
    /\ critical_path = <<>>
    /\ result = None
    /\ critical_tasks = <<>>
    /\ calls = <<>>
    /\ pc = "built"
    /\ returned = None
    /\ peer = None
    /\ all_paths = <<>>
    /\ duration_hours = None
    /\ frame = None

\* one thread runs the methods: the statement that comes next is executed
SpecLoops == InitLoops /\ [][NextLoops]_vars /\ WF_vars(NextLoops)

Running == pc \in {"while_queue", "for_adj", "for_reversed", "for_critical", "for_start", "while_stack"}

Terminated == pc \in {"enumerated", "raised_in_find_all_critical_paths"}

NoRepeat(s) == \A i \in 1..Len(s), j \in 1..Len(s) : s[i] = s[j] => i = j

\* C26: topological_sort, calculate_critical_path and find_all_critical_paths
\* terminate on every finite graph, cyclic or not: the forward pass dequeues each node
\* at most once, and the path enumeration never extends a path with a node already
\* on it.
C26_LoopsTerminate ==
    /\ [](Running \/ pc = "enumerated" =>
            /\ NoRepeat(frame.topo_order)
            /\ \A i \in 1..Len(frame.stack) : NoRepeat(frame.stack[i])
            /\ \A i \in 1..Len(frame.paths) : NoRepeat(frame.paths[i]))
    /\ (pc = "built" ~> Terminated)

\* the enumeration returned on a graph with a cycle: the sort stopped short
C26_Witness ==
    /\ pc = "enumerated"
    /\ HasCycle
    /\ Len(frame.topo_order) < Len(nodes)
    /\ frame.topo_order # <<>>



-----------------------------------------------------------------------------
(* C27, under SpecTwice *)

\* C27: for every acyclic task set, after calculate_critical_path the project-end node
\* attains the project duration: ve and vl of the project-end node both equal the
\* greatest ve over all nodes.
C27_ProjectEndAttainsDuration ==
    pc = "calculated" /\ result # None /\ ~CyclicWithin(TaskIdx) =>
        /\ ve[end_id(ProjectKey)] = max_value({ve[n] : n \in Range(nodes)})
        /\ vl[end_id(ProjectKey)] = ve[end_id(ProjectKey)]



-----------------------------------------------------------------------------
(* C28, under SpecPaths *)

\* the duration of the edge u -> v
EdgeDuration(u, v) == adj[u][CHOOSE i \in EdgeIdx(u, v) : TRUE][2]

\* the durations of the edges of path p up to its k-th node, added up in path order
RECURSIVE PathTotal(_, _)
PathTotal(p, k) ==
    IF k <= 1 THEN Zero
    ELSE Plus(PathTotal(p, k - 1), EdgeDuration(p[k - 1], p[k]))

\* C28: on every acyclic graph built from a task list, each path returned by
\* find_all_critical_paths has a total edge duration equal to the project duration
\* that calculate_critical_path returned.
C28_PathsLastTheProject ==
    PathsReturned /\ result # None /\ ~CyclicWithin(TaskIdx) /\ ~HasCycle =>
        \A k \in 1..Len(all_paths) :
            PathTotal(all_paths[k], Len(all_paths[k])) = result[1].max_time



-----------------------------------------------------------------------------
(* C29, under Spec *)

\* the records that parent i lists in subtasks
SubtasksOf(i) == {j \in Keyed : tasks[j].key \in Range(tasks[i].subtasks)}

\* C29: for every parent task P and every subtask S of P present in an acyclic task
\* list, after calculate_critical_path the completion event of the parent is not
\* earlier than that of the subtask: ve[P_end] >= ve[S_end].
C29_ParentEndsAfterSubtask ==
    pc = "calculated" /\ result # None /\ ~CyclicWithin(TaskIdx) =>
        \A i \in Parents : \A j \in SubtasksOf(i) :
            LessEq(ve[end_id(tasks[j].key)], ve[end_id(tasks[i].key)])



-----------------------------------------------------------------------------
(* A session on one AOEGraph: the public methods in any order *)
(* C30, under SpecSession *)

\* two top-level tasks without predecessor
SessionLists ==
    {<<Task("T1", FALSE, <<>>, <<>>, Estimated(e1)),
       Task("T2", FALSE, <<>>, <<>>, Estimated(e2))>> : e1 \in {900}, e2 \in {900, 1800}}

\* the edges a caller adds: T1 made longer, T2 after T1, T2 closed to a cycle
SessionEdges ==
    {<<start_id("T1"), end_id("T1"), Num(5)>>,
     <<end_id("T1"), start_id("T2"), Num(0)>>,
     <<end_id("T2"), start_id("T2"), Num(0)>>}

SessionNodes == {start_id("T3")}

\* the positions at which the caller may call a method
Open == {"built", "edited", "calculated", "annotated", "enumerated"}

EdgeAdded(g) ==
    /\ adj' = g.adj
    /\ in_degree' = g.in_degree

\* graph.add_edge(start_node, end_node, duration)
SessionAddEdge(start_node, end_node, duration) ==
    /\ pc \in Open
    /\ Len(calls) < MaxCalls
    /\ EdgeAdded(add_edge(graph, start_node, end_node, duration))
    /\ calls' = Append(calls, <<start_node, end_node, duration>>)
    /\ pc' = "edited"
    /\ UNCHANGED <<tasks, nodes, ve, vl, critical_path, result, critical_tasks,
                   returned, peer, all_paths, duration_hours, frame>>

\* graph.add_node(node_id, node_name)
SessionAddNode(node_id) ==
    /\ pc \in Open
    /\ Len(calls) < MaxCalls
    /\ nodes' = add_node(graph, node_id).nodes
    /\ calls' = Append(calls, <<node_id>>)
    /\ pc' = "edited"
    /\ UNCHANGED <<tasks, adj, in_degree, ve, vl, critical_path, result, critical_tasks,
                   returned, peer, all_paths, duration_hours, frame>>

\* graph.calculate_critical_path()
SessionCalculateCriticalPath ==
    /\ pc \in Open
    /\ CalculatedAs(calculate_critical_path(graph, solver))
    /\ UNCHANGED <<tasks, nodes, adj, in_degree, critical_tasks, calls, returned, peer,
                   all_paths, duration_hours, frame>>

\* graph.get_critical_tasks()
SessionGetCriticalTasks ==
    /\ pc \in Open
    /\ AnnotatedAs(get_critical_tasks(graph, solver, tasks))
    /\ UNCHANGED <<nodes, adj, in_degree, calls, returned, peer, all_paths,
                   duration_hours, frame>>

\* graph.find_all_critical_paths()
SessionFindAllCriticalPaths ==
    /\ pc \in Open
    /\ Enumerated(find_all_critical_paths(graph, solver))
    /\ UNCHANGED <<tasks, nodes, adj, in_degree, critical_tasks, calls, returned, peer,
                   duration_hours, frame>>

NextSession ==
    \/ BuildGraphFromTasks
    \/ \E e \in SessionEdges : SessionAddEdge(e[1], e[2], e[3])
    \/ \E n \in SessionNodes : SessionAddNode(n)
    \/ SessionCalculateCriticalPath
    \/ SessionGetCriticalTasks
    \/ SessionFindAllCriticalPaths

InitSession == InitTasks(SessionLists)

SpecSession == InitSession /\ [][NextSession]_vars

\* a solver that has calculated nothing yet
FreshSolver == [ve |-> <<>>, vl |-> <<>>, critical_path |-> <<>>, ret |-> None]

\* the critical edges of the current edge set; none when it holds a cycle
CurrentCriticalEdges == calculate_critical_path(graph, FreshSolver).critical_path

\* C30: after any sequence of add_node, add_edge, calculate_critical_path,
\* find_all_critical_paths and get_critical_tasks calls on one AOEGraph, the critical
\* edges used by get_critical_tasks and find_all_critical_paths are those of the
\* current edge set: an earlier result is never reused after the graph changed, and
\* no critical task is reported when the graph holds a cycle.
C30_ResultsFollowTheGraph ==
    /\ pc = "annotated" =>
          critical_tasks =
              annotate(CurrentCriticalEdges, 1, [tasks |-> tasks, listed |-> <<>>]).listed
    /\ pc = "enumerated" =>
          all_paths = walk_from(start_nodes(graph), 1, CurrentCriticalEdges,
                                Range(end_nodes(graph)), <<>>)

====
